---- MODULE Spec2Model ----
(***************************************************************************)
(* Model of model/matrix_transformations.py (Parcellotron): matrix_log2,   *)
(* matrix_zscore, rotate_components and fit_power, called one after the    *)
(* other by a single-threaded caller.  The process-wide numpy random       *)
(* generator (np.random) is the only state that outlives a call.           *)
(*                                                                         *)
(* Arrays are functions over 0-based index ranges, as in numpy.            *)
(***************************************************************************)
EXTENDS Integers, Sequences, FiniteSets

VARIABLES
    pc,          \* position of the caller/callee: "idle", "loop", "break", "done"
    fn,          \* the function of the current (or last) call
    arg,         \* the arguments as they were when the call started
    ret,         \* how the call ended: a record with kind "none", "value" or "raise"
    first,       \* outcome of the preceding call with equal arguments (or NoRet)
    rng,         \* position of the process-wide np.random generator in its stream
    matrix,      \* the caller's array object handed to matrix_log2 or matrix_zscore
    ind_zerostd, \* matrix_zscore: indices found by np.where
    printed,     \* matrix_zscore: the count printed by the report, <<>> if none
    written,     \* matrix_zscore: the columns the call assigned to
    r,           \* rotate_components: the rotation matrix
    d,           \* rotate_components: sum of the singular values, in units of 1/p
    d_old,       \* rotate_components: d of the iteration before
    i,           \* rotate_components: the loop index
    updates,     \* rotate_components: number of assignments r = u * vh so far
    svd_seen,    \* what np.linalg.svd answered so far: <<input, answer>> pairs
    popt,        \* fit_power: the fitted <<amp, exponent>>, <<>> before the fit
    i0           \* fit_power: the grid indices where d == np.min(d)

zvars == <<matrix, ind_zerostd, printed, written>>

rvars == <<r, d, d_old, i, updates, svd_seen>>

fvars == <<popt, i0>>

vars == <<pc, fn, arg, ret, first, rng, matrix, ind_zerostd, printed, written,
          r, d, d_old, i, updates, svd_seen, popt, i0>>

-----------------------------------------------------------------------------
(* Bounds of the model *)

\* matrix_zscore is called on matrices with 1..MaxCols columns
MaxCols == 2

\* rows (ROIs) of the matrices handed to matrix_log2 and matrix_zscore
ROIs == {0, 1}

\* entries of the matrices handed to matrix_zscore
Entries == {-1, 0, 1}

\* the stream of the np.random generator: the values successive randn draws
\* return; the generator's state is its position in the stream
Stream == <<2, -1, 3, 0, -3>>

-----------------------------------------------------------------------------
(* Helpers: numbers *)

Abs(x) == IF x < 0 THEN -x ELSE x

Sgn(x) == IF x < 0 THEN -1 ELSE IF x > 0 THEN 1 ELSE 0

RECURSIVE Gcd(_, _)
Gcd(a, b) == IF b = 0 THEN a ELSE Gcd(b, a % b)

RECURSIVE SumOver(_, _)
\* sum of f[i] for i in the finite set S
SumOver(f, S) ==
    IF S = {} THEN 0
    ELSE LET x == CHOOSE j \in S : TRUE IN f[x] + SumOver(f, S \ {x})

\* The arguments of a call are a record over the parameter names of the
\* function called; NoArgs stands for no call.
NoArgs == [nargs |-> 0]

\* How a call ended: not yet, with a returned value (the field is named after
\* what the function returns), or with an exception.
NoRet == [kind |-> "none"]

ReturnLogMatrix(m) == [kind |-> "value", log_matrix |-> m]

ReturnZMatrix(m) == [kind |-> "value", z_matrix |-> m]

ReturnRotated(m) == [kind |-> "value", rotated |-> m]

ReturnNpc(n) == [kind |-> "value", npc |-> n]

Raise(e) == [kind |-> "raise", exc |-> e]

-----------------------------------------------------------------------------
(* matrix_zscore *)

Rows(m) == DOMAIN m

Cols(m) == DOMAIN m[CHOOSE rw \in DOMAIN m : TRUE]

\* np.sum(matrix, axis=0)[c]
ColSum(m, c) == SumOver([rw \in Rows(m) |-> m[rw][c]], Rows(m))

\* variant: the columns whose entries are all zero
where_all_zero(m) == {c \in Cols(m) : \A rw \in Rows(m) : m[rw][c] = 0}

\* np.where(np.sum(matrix, axis=0) == 0): the indices of the zero-sum columns
where_zero_sum(m) == {c \in Cols(m) : ColSum(m, c) = 0}

\* variant: the index array is not empty
index_array_nonempty(ind) == ind # {}

\* np.squeeze(ind_zerostd).any(): some element of the index array is nonzero
squeeze_any(ind) == \E c \in ind : c # 0

\* position of column c in the ascending index array ind
Rank(ind, c) == Cardinality({x \in ind : x < c})

\* np.random.randn(nROIs, 1, n)[rw, 0, k] drawn with the generator at position s
randn(s, n, rw, k) == Stream[((s + rw * n + k) % Len(Stream)) + 1]

\* the generator's position after nROIs * n draws
rng_after(s, nROIs, n) == (s + nROIs * n) % Len(Stream)

\* matrix[:, [i for i in ind_zerostd]] = np.random.randn(nROIs, 1, n)
assign_columns(m, ind, s) ==
    [rw \in Rows(m) |->
        [c \in Cols(m) |->
            IF c \in ind THEN randn(s, Cardinality(ind), rw, Rank(ind, c))
            ELSE m[rw][c]]]

\* the result of 0/0
NaN == <<0, 0, 0>>

\* One entry of st.zscore(matrix, axis=0): (x - mean) / std with the population
\* std.  With n rows, e = n*x - sum and q = sum of e^2 over the column, the
\* z-score is sign(e) * sqrt(n * e^2 / q); it is kept exactly as <<sign, a, b>>
\* with a/b the reduced fraction under the root, and is NaN (0/0) when q = 0.
zscore_entry(m, rw, c) ==
    LET n == Cardinality(Rows(m))
        e == [k \in Rows(m) |-> n * m[k][c] - ColSum(m, c)]
        q == SumOver([k \in Rows(m) |-> e[k] * e[k]], Rows(m))
        num == n * e[rw] * e[rw]
        g == Gcd(num, q)
    IN  IF q = 0 THEN NaN
        ELSE <<Sgn(e[rw]), num \div g, q \div g>>

\* st.zscore(matrix, axis=0)
zscore(m) == [rw \in Rows(m) |-> [c \in Cols(m) |-> zscore_entry(m, rw, c)]]

ZMatrices ==
    UNION {[ROIs -> [0..(k - 1) -> Entries]] : k \in 1..MaxCols}

\* The body of matrix_zscore on the array object m with the generator at rng.
matrix_zscore(m) ==
    LET ind == where_zero_sum(m)
        hit == squeeze_any(ind)
        nROIs == Cardinality(Rows(m))
        numba_voxels_zerostd == Cardinality(ind)
        m2 == IF hit THEN assign_columns(m, ind, rng) ELSE m
    IN  /\ ind_zerostd' = ind
        /\ printed' = IF hit THEN <<numba_voxels_zerostd>> ELSE <<>>
        /\ written' = IF hit THEN ind ELSE {}
        /\ rng' = IF hit THEN rng_after(rng, nROIs, numba_voxels_zerostd) ELSE rng
        /\ matrix' = m2
        /\ ret' = ReturnZMatrix(zscore(m2))

CallZscore ==
    /\ pc = "idle"
    /\ \E m \in ZMatrices :
        /\ arg' = [matrix |-> m]
        /\ matrix_zscore(m)
    /\ fn' = "matrix_zscore"
    /\ first' = NoRet
    /\ pc' = "done"
    /\ UNCHANGED <<rvars, fvars>>

\* The caller calls matrix_zscore again on a matrix equal to the one it passed
\* the first time, and keeps the first result to compare.
RepeatZscore ==
    /\ pc = "done"
    /\ fn = "matrix_zscore"
    /\ first.kind = "none"
    /\ matrix_zscore(arg.matrix)
    /\ first' = ret
    /\ UNCHANGED <<pc, fn, arg>>
    /\ UNCHANGED <<rvars, fvars>>

-----------------------------------------------------------------------------
(* matrix_log2 *)

\* entries of the matrices handed to matrix_log2
LogEntries == {-2, -1, 0, 1, 3}

LogMatrices == [ROIs -> [{0} -> LogEntries]]

RECURSIVE ilog2(_)
ilog2(x) == IF x <= 1 THEN 0 ELSE 1 + ilog2(x \div 2)

\* np.log2(x) for the x the model uses: exact on the powers of two, -inf at 0
\* and nan below 0 (no exception is raised)
log2(x) ==
    IF x < 0 THEN <<"nan", 0>>
    ELSE IF x = 0 THEN <<"-inf", 0>>
    ELSE <<"num", ilog2(x)>>

\* np.log2(matrix + 1): a new array, the argument is not written
matrix_log2(m) == [rw \in Rows(m) |-> [c \in Cols(m) |-> log2(m[rw][c] + 1)]]

CallLog2 ==
    /\ pc = "idle"
    /\ \E m \in LogMatrices :
        /\ arg' = [matrix |-> m]
        /\ matrix' = m
        /\ ret' = ReturnLogMatrix(matrix_log2(m))
    /\ fn' = "matrix_log2"
    /\ first' = NoRet
    /\ pc' = "done"
    /\ UNCHANGED <<rng, ind_zerostd, printed, written>>
    /\ UNCHANGED <<rvars, fvars>>

RepeatLog2 ==
    /\ pc = "done"
    /\ fn = "matrix_log2"
    /\ first.kind = "none"
    /\ ret' = ReturnLogMatrix(matrix_log2(arg.matrix))
    /\ first' = ret
    /\ UNCHANGED <<pc, fn, arg, rng, matrix, ind_zerostd, printed, written>>
    /\ UNCHANGED <<rvars, fvars>>

-----------------------------------------------------------------------------
(* Matrices *)

\* np.eye(k)
Eye(k) == [a \in 0..(k - 1) |-> [b \in 0..(k - 1) |-> IF a = b THEN 1 ELSE 0]]

\* np.dot(a, b)
Dot(a, b) ==
    [x \in Rows(a) |->
        [y \in Cols(b) |-> SumOver([z \in Rows(b) |-> a[x][z] * b[z][y]], Rows(b))]]

\* a.T
Transpose(a) == [y \in Cols(a) |-> [x \in Rows(a) |-> a[x][y]]]

\* np.diag(v) for a vector v
DiagFromVec(v) ==
    [a \in DOMAIN v |-> [b \in DOMAIN v |-> IF a = b THEN v[a] ELSE 0]]

\* np.diag(np.diag(a)) for a square matrix a
DiagOfDiag(a) == DiagFromVec([x \in Rows(a) |-> a[x][x]])

\* np.sum(s)
VecSum(v) == SumOver(v, DOMAIN v)

-----------------------------------------------------------------------------
(* rotate_components *)

\* q ranges over 0..MaxQ
MaxQ == 3

\* denominator of the default tol = 1e-6 = 1 / TolDen
TolDen == 1000000

\* the loadings matrices the caller passes (p x k)
Phis ==
    { [x \in 0..1 |-> [y \in 0..1 |-> 0]],
      [x \in 0..2 |-> [y \in 0..1 |-> IF x = y THEN 1 ELSE 0]],
      [x \in 0..1 |-> [y \in 0..1 |-> IF x = y THEN 2 ELSE 0]],
      [x \in 0..1 |-> [y \in 0..1 |-> IF x = 1 /\ y = 0 THEN 0 ELSE 1]] }

\* gamma: 1.0 for varimax, 0.0 for quartimax
Gammas == {0, 1}

\* The argument of np.linalg.svd in the loop, times p (the model keeps it and
\* the singular values in units of 1/p, so that gamma / p needs no fraction):
\* np.dot(phi.T, Lambda**3 - (gamma/p) * np.dot(Lambda, np.diag(np.diag(np.dot(Lambda.T, Lambda)))))
svd_input(phi, gamma, rr) ==
    LET p == Cardinality(Rows(phi))
        Lambda == Dot(phi, rr)
        cube == [x \in Rows(Lambda) |-> [y \in Cols(Lambda) |->
                    Lambda[x][y] * Lambda[x][y] * Lambda[x][y]]]
        LD == Dot(Lambda, DiagOfDiag(Dot(Transpose(Lambda), Lambda)))
    IN  Dot(Transpose(phi),
            [x \in Rows(Lambda) |-> [y \in Cols(Lambda) |->
                p * cube[x][y] - gamma * LD[x][y]]])

\* The orthogonal k x k matrices with integer entries: the signed permutations.
SignedPerms(k) ==
    LET K == 0..(k - 1)
        perms == {f \in [K -> K] : \A a, b \in K : f[a] = f[b] => a = b}
    IN  {[a \in K |-> [b \in K |-> IF b = f[a] THEN sg[a] ELSE 0]] :
            f \in perms, sg \in [K -> {-1, 1}]}

OrthTable == [k \in 1..2 |-> SignedPerms(k)]

Orth(k) == OrthTable[k]

\* singular-value vectors: nonnegative, in descending order
Descending(v) == \A a, b \in DOMAIN v : a < b => v[a] >= v[b] /\ v[b] >= 0

\* m = u * diag(s) * vh has a solution with integer factors: no row and no
\* column of m holds two nonzero entries
Representable(m) ==
    \A a, b, c \in Rows(m) :
        b # c => /\ m[a][b] = 0 \/ m[a][c] = 0
                 /\ m[b][a] = 0 \/ m[c][a] = 0

\* Singular values (in units of 1/p) and orthogonal factors that stand for the
\* ones of a matrix whose decomposition has no integer factors.
StandInValues == {<<0, 0>>, <<1, 0>>, <<2, 1>>}

StandInFactors ==
    { Eye(2),
      [a \in 0..1 |-> [b \in 0..1 |-> IF a = b THEN 0 ELSE IF a < b THEN -1 ELSE 1]] }

\* np.linalg.svd raises LinAlgError("SVD did not converge"): no factors
LinAlgError(k) ==
    [ok |-> FALSE, u |-> Eye(k), s |-> [a \in 0..(k - 1) |-> 0], vh |-> Eye(k)]

StandInAnswers ==
    [ok : {TRUE}, u : StandInFactors,
     s : {[a \in 0..1 |-> t[a + 1]] : t \in StandInValues}, vh : StandInFactors]
    \cup {LinAlgError(2)}

\* The decompositions m = u * diag(s) * vh with u, vh in Orth(k) and s
\* descending and nonnegative; as u is orthogonal, diag(s) * vh = u.T * m.
svd_exact(m) ==
    LET k == Cardinality(Rows(m))
        K == 0..(k - 1)
        w(u) == Dot(Transpose(u), m)
        sv(x) == [a \in K |-> SumOver([b \in K |-> Abs(x[a][b])], K)]
    IN  UNION { {[ok |-> TRUE, u |-> f[1], s |-> f[3], vh |-> vh] :
                    vh \in {v \in Orth(k) :
                               /\ Descending(f[3])
                               /\ \A a, b \in K : f[2][a][b] = f[3][a] * v[a][b]}} :
                f \in {<<g[1], g[2], sv(g[2])>> : g \in {<<u, w(u)>> : u \in Orth(k)}} }

\* The answers np.linalg.svd(m) may give, as (u, s, vh) with u and vh orthogonal
\* and s descending.  Where m = u * diag(s) * vh has a solution with integer
\* factors, the answers are exactly those solutions.  Elsewhere the true
\* factors are irrational: the orthogonal u, vh of StandInFactors and the s of
\* StandInValues stand for them, and the routine may also fail to converge.
svd(m) ==
    IF Representable(m) THEN svd_exact(m) ELSE StandInAnswers

\* d / d_old < 1 + tol with tol = 1 / TolDen, for d_old # 0
ratio_below(dd, dold) ==
    IF dold > 0 THEN dd * TolDen < dold * (TolDen + 1)
    ELSE dd * TolDen > dold * (TolDen + 1)

\* variant: stop on a negligible change only, |d - d_old| / d_old < tol
break_test_converged(dd, dold) ==
    dold # 0 /\ Abs(dd - dold) * TolDen < Abs(dold)

\* variant: the test without its guard d_old != 0
break_test_unguarded(dd, dold) == ratio_below(dd, dold)

\* if d_old != 0 and d / d_old < 1 + tol: break
break_test(dd, dold) == dold # 0 /\ ratio_below(dd, dold)

\* variant: the elementwise product u * vh
rotation_elementwise(u, vh) ==
    [a \in Rows(u) |-> [b \in Cols(u) |-> u[a][b] * vh[a][b]]]

\* r = np.dot(u, vh)
rotation(u, vh) == Dot(u, vh)

\* d = np.sum(s)
criterion(s) == VecSum(s)

\* what the library answered for input m, as the loop uses it
Answer(o) == [ok |-> o.ok, r |-> rotation(o.u, o.vh), d |-> criterion(o.s)]

\* the values r takes: k x k matrices with entries in -1..1 (k = 2 for Phis)
Rotations == [0..1 -> [0..1 -> -1..1]]

\* Lines 90-95 for every (phi, gamma, r): the argument m of np.linalg.svd and
\* what the loop may get from it.
loop_passes ==
    {[phi |-> phi, gamma |-> gamma, r |-> rr,
      m |-> svd_input(phi, gamma, rr),
      answers |-> {Answer(o) : o \in svd(svd_input(phi, gamma, rr))}] :
        phi \in Phis, gamma \in Gammas, rr \in Rotations}

loop_pass(phi, gamma, rr) ==
    CHOOSE t \in loop_passes : t.phi = phi /\ t.gamma = gamma /\ t.r = rr

\* np.linalg.svd is a function: the same input gets the same answer
Consistent(m, a) == \A e \in svd_seen : e[1] = m => e[2] = a

RotateArgs == [phi : Phis, gamma : Gammas, q : 0..MaxQ]

\* p,k = phi.shape; r = np.eye(k); d = 0
rotate_start(a) ==
    /\ r' = Eye(Cardinality(Cols(a.phi)))
    /\ d' = 0
    /\ d_old' = 0
    /\ i' = 0
    /\ updates' = 0
    /\ pc' = "loop"
    /\ ret' = NoRet

CallRotate ==
    /\ pc = "idle"
    /\ \E a \in RotateArgs :
        /\ arg' = a
        /\ rotate_start(a)
    /\ fn' = "rotate_components"
    /\ first' = NoRet
    /\ svd_seen' = {}
    /\ UNCHANGED <<rng, zvars, fvars>>

\* The caller calls rotate_components again with equal arguments.
RepeatRotate ==
    /\ pc = "done"
    /\ fn = "rotate_components"
    /\ first.kind = "none"
    /\ rotate_start(arg)
    /\ first' = ret
    /\ UNCHANGED <<fn, arg, rng, zvars, svd_seen, fvars>>

\* variant: one pass too many
in_range_inclusive(ii, q) == ii <= q

\* for i in np.arange(q): the loop body runs for index ii
in_range(ii, q) == ii < q

\* One pass of the loop body
RotateIter ==
    /\ pc = "loop"
    /\ in_range(i, arg.q)
    /\ \E t \in {loop_pass(arg.phi, arg.gamma, r)} :
       \E a \in t.answers :
          /\ Consistent(t.m, a)
          /\ svd_seen' = svd_seen \cup {<<t.m, a>>}
          /\ IF a.ok
             THEN /\ d_old' = d
                  /\ r' = a.r
                  /\ d' = a.d
                  /\ updates' = updates + 1
                  /\ IF break_test(a.d, d)
                     THEN pc' = "break" /\ i' = i
                     ELSE pc' = "loop" /\ i' = i + 1
                  /\ ret' = ret
             ELSE /\ d_old' = d
                  /\ ret' = Raise("LinAlgError")
                  /\ pc' = "done"
                  /\ UNCHANGED <<r, d, i, updates>>
    /\ UNCHANGED <<fn, arg, first, rng, zvars, fvars>>

\* return np.dot(phi, r), after the loop ran out or was left by break
RotateReturn ==
    /\ \/ pc = "break"
       \/ pc = "loop" /\ ~in_range(i, arg.q)
    /\ ret' = ReturnRotated(Dot(arg.phi, r))
    /\ pc' = "done"
    /\ UNCHANGED <<fn, arg, first, rng, zvars, rvars, fvars>>

-----------------------------------------------------------------------------
(* fit_power *)

\* Real numbers are kept in fixed point, as integers in units of 1 / Scale.
Scale == 100

\* L = L[0:50]
TruncLen == 50

\* x = np.linspace(1, 50, 1000): GridN points from GridLo to GridHi
GridLo == 1

GridHi == 50

GridN == 99

\* amplitudes (fixed point), exponents and lengths of the spectra the caller passes
Amps == {2 * Scale, 3 * Scale, 5 * Scale}

Exponents == {-2, -1, 0}

Lengths == {0, 1, 3, 51}

RECURSIVE IntPow(_, _)
IntPow(b, n) == IF n = 0 THEN 1 ELSE b * IntPow(b, n - 1)

\* def powerfunc(x, amp, exponent): return amp * (x ** exponent)
\* for fixed-point x and amp and an integer exponent, rounded once
powerfunc(x, amp, exponent) ==
    IF exponent >= 0
    THEN (amp * IntPow(x, exponent)) \div IntPow(Scale, exponent)
    ELSE (amp * IntPow(Scale, -exponent)) \div IntPow(x, -exponent)

RECURSIVE SqrtBetween(_, _, _)
\* the largest s in lo..hi with s * s <= v
SqrtBetween(v, lo, hi) ==
    IF lo >= hi THEN lo
    ELSE LET mid == (lo + hi + 1) \div 2 IN
         IF mid * mid <= v THEN SqrtBetween(v, mid, hi)
         ELSE SqrtBetween(v, lo, mid - 1)

\* np.sqrt(v) of a fixed-point v >= 0 (v is in units of 1 / Scale^2 here)
sqrt(v) == SqrtBetween(v, 0, 46340)

\* np.round(x): to the nearest integer, halves to the even one
round(x) ==
    LET lo == x \div Scale
        rest == x % Scale
    IN  IF 2 * rest < Scale THEN lo
        ELSE IF 2 * rest > Scale THEN lo + 1
        ELSE IF lo % 2 = 0 THEN lo ELSE lo + 1

\* np.linspace(GridLo, GridHi, GridN)[j]
linspace(j) ==
    (Scale * ((GridN - 1) * GridLo + (GridHi - GridLo) * j)) \div (GridN - 1)

\* the spectrum amp * x^exponent at x = 1..n
Spectrum(amp, exponent, n) == [x \in 1..n |-> powerfunc(x * Scale, amp, exponent)]

Spectra == {Spectrum(a, e, n) : a \in Amps, e \in Exponents, n \in Lengths}

\* L[0:50]
Truncate(L) == SubSeq(L, 1, IF Len(L) < TruncLen THEN Len(L) ELSE TruncLen)

\* curve_fit(powerfunc, xL, L, method='lm') with xL = 1..len(L).  It raises on
\* empty data (ValueError) and on fewer data points than the two parameters
\* (TypeError: improper input).  The spectra of the model lie on a power law,
\* which the fit recovers.
curve_fit(L) ==
    IF Len(L) = 0 THEN [ok |-> FALSE, exc |-> "ValueError", popt |-> <<>>]
    ELSE IF Len(L) < 2 THEN [ok |-> FALSE, exc |-> "TypeError", popt |-> <<>>]
    ELSE [ok |-> TRUE, exc |-> "",
          popt |-> CHOOSE pr \in Amps \X Exponents :
                       Spectrum(pr[1], pr[2], Len(L)) = L]

\* np.where(d == np.min(d)) for d = np.sqrt(x**2 + y**2), y = powerfunc(x, *popt)
argmin_distance(pr) ==
    LET J == 0..(GridN - 1)
        dist(j) == sqrt(linspace(j) * linspace(j)
                        + powerfunc(linspace(j), pr[1], pr[2])
                          * powerfunc(linspace(j), pr[1], pr[2]))
        ds == {dist(j) : j \in J}
        min == CHOOSE m \in ds : \A k \in ds : m <= k
    IN  {j \in J : dist(j) = min}

\* npc = np.int(np.round(x0)) with x0 = x[np.squeeze(i0)]: x0 is one number
\* when i0 holds one index; an array of another size is not converted
\* (TypeError: only size-1 arrays can be converted to Python scalars)
to_npc(ix) ==
    IF Cardinality(ix) = 1
    THEN ReturnNpc(round(linspace(CHOOSE j \in ix : TRUE)))
    ELSE Raise("TypeError")

\* variant: a failed fit is swallowed and one component is reported
after_curve_fit_swallowed(fit, ix) ==
    IF fit.ok THEN to_npc(ix) ELSE ReturnNpc(GridLo)

\* What fit_power does with the outcome of curve_fit: an exception of the fit
\* is not caught, so it ends the call; otherwise the count is computed.
after_curve_fit(fit, ix) ==
    IF fit.ok THEN to_npc(ix) ELSE Raise(fit.exc)

\* the body of fit_power
fit_power(L) ==
    \E fit \in {curve_fit(Truncate(L))} :
    \E ix \in {IF fit.ok THEN argmin_distance(fit.popt) ELSE {}} :
        /\ popt' = fit.popt
        /\ i0' = ix
        /\ ret' = after_curve_fit(fit, ix)

CallFit ==
    /\ pc = "idle"
    /\ \E L \in Spectra :
        /\ arg' = [eigvals_rot |-> L]
        /\ fit_power(L)
    /\ fn' = "fit_power"
    /\ first' = NoRet
    /\ pc' = "done"
    /\ UNCHANGED <<rng, zvars, rvars>>

\* The caller calls fit_power again with an equal vector.
RepeatFit ==
    /\ pc = "done"
    /\ fn = "fit_power"
    /\ first.kind = "none"
    /\ fit_power(arg.eigvals_rot)
    /\ first' = ret
    /\ UNCHANGED <<pc, fn, arg, rng, zvars, rvars>>

-----------------------------------------------------------------------------
(* The caller *)

NoMatrix == [rw \in {0} |-> [c \in {0} |-> 0]]

Init ==
    /\ pc = "idle"
    /\ fn = "none"
    /\ arg = NoArgs
    /\ ret = NoRet
    /\ first = NoRet
    /\ rng \in 0..(Len(Stream) - 1)
    /\ matrix = NoMatrix
    /\ ind_zerostd = {}
    /\ printed = <<>>
    /\ written = {}
    /\ r = <<>>
    /\ d = 0
    /\ d_old = 0
    /\ i = 0
    /\ updates = 0
    /\ svd_seen = {}
    /\ popt = <<>>
    /\ i0 = {}

\* The caller is done with the result; everything but the generator is dropped.
Finish ==
    /\ pc = "done"
    /\ pc' = "idle"
    /\ fn' = "none"
    /\ arg' = NoArgs
    /\ ret' = NoRet
    /\ first' = NoRet
    /\ matrix' = NoMatrix
    /\ ind_zerostd' = {}
    /\ printed' = <<>>
    /\ written' = {}
    /\ r' = <<>>
    /\ d' = 0
    /\ d_old' = 0
    /\ i' = 0
    /\ updates' = 0
    /\ svd_seen' = {}
    /\ popt' = <<>>
    /\ i0' = {}
    /\ UNCHANGED rng

Next ==
    \/ CallLog2
    \/ RepeatLog2
    \/ CallZscore
    \/ RepeatZscore
    \/ CallRotate
    \/ RepeatRotate
    \/ RotateIter
    \/ RotateReturn
    \/ CallFit
    \/ RepeatFit
    \/ Finish

Spec == Init /\ [][Next]_vars

\* The program is sequential: a started call of rotate_components keeps running.
FairSpec == Spec /\ WF_vars(RotateIter) /\ WF_vars(RotateReturn)

-----------------------------------------------------------------------------
(* Properties of matrix_zscore *)

ZscoreDone == pc = "done" /\ fn = "matrix_zscore"

\* the columns of m whose entries sum to zero
ZeroSumCols(m) == {c \in Cols(m) : ColSum(m, c) = 0}

\* column c of m sums to zero although it holds nonzero entries
Cancelling(m, c) == ColSum(m, c) = 0 /\ \E rw \in Rows(m) : m[rw][c] # 0

\* C1: whenever the matrix passed to matrix_zscore has a zero-sum column (also
\* when column 0 is the only one), the call prints the report with the number
\* of zero-sum columns, replaces exactly those columns, and returns the
\* z-score of the matrix so repaired.
C1_ReportAndRepair ==
    ZscoreDone /\ ZeroSumCols(arg.matrix) # {} =>
        /\ printed = <<Cardinality(ZeroSumCols(arg.matrix))>>
        /\ written = ZeroSumCols(arg.matrix)
        /\ ret = ReturnZMatrix(zscore(matrix))

\* C5: matrix_zscore leaves its argument as it was when no column sums to
\* zero, and otherwise overwrites the zero-sum columns and only those.
C5_MutatesExactlyZeroSum ==
    ZscoreDone =>
        /\ ZeroSumCols(arg.matrix) = {} => matrix = arg.matrix /\ written = {}
        /\ ZeroSumCols(arg.matrix) # {} =>
              /\ written = ZeroSumCols(arg.matrix)
              /\ \A c \in Cols(arg.matrix) \ ZeroSumCols(arg.matrix) :
                    \A rw \in Rows(arg.matrix) : matrix[rw][c] = arg.matrix[rw][c]

\* C7 as claimed: a zero-sum column with cancelling nonzero entries is not
\* detected: a printed report counts the all-zero columns only, and the
\* column is not overwritten.
C7_CancellingUndetected ==
    ZscoreDone =>
        \A c \in Cols(arg.matrix) :
            Cancelling(arg.matrix, c) =>
                /\ printed # <<>> =>
                      printed[1] = Cardinality({k \in Cols(arg.matrix) :
                                        \A rw \in Rows(arg.matrix) : arg.matrix[rw][k] = 0})
                /\ c \notin written
                /\ \A rw \in Rows(arg.matrix) : matrix[rw][c] = arg.matrix[rw][c]

\* C7 amended: a zero-sum column with cancelling nonzero entries is detected
\* like an all-zero column: it is in the index array, and whenever the report
\* is printed (some zero-sum column has a nonzero index) it is counted and
\* overwritten; it is left as it is only when no zero-sum column has a
\* nonzero index.
C7_CancellingDetected ==
    ZscoreDone =>
        \A c \in Cols(arg.matrix) :
            Cancelling(arg.matrix, c) =>
                /\ c \in ind_zerostd
                /\ IF \E k \in ZeroSumCols(arg.matrix) : k # 0
                   THEN /\ printed = <<Cardinality(ZeroSumCols(arg.matrix))>>
                        /\ c \in written
                   ELSE /\ printed = <<>>
                        /\ c \notin written
                        /\ \A rw \in Rows(arg.matrix) : matrix[rw][c] = arg.matrix[rw][c]

\* a call that counted and overwrote a cancelling column
C7_Witness ==
    /\ ZscoreDone
    /\ \E c \in Cols(arg.matrix) :
        /\ Cancelling(arg.matrix, c)
        /\ c \in written
        /\ printed # <<>>
        /\ \E rw \in Rows(arg.matrix) : matrix[rw][c] # arg.matrix[rw][c]

-----------------------------------------------------------------------------
(* Independence of calls *)

\* the caller made the same call twice and holds both outcomes
CalledTwice == pc = "done" /\ first.kind # "none"

\* C6 as claimed: a call's result depends on its arguments only, so the second
\* of two calls with equal arguments ends as the first did.
C6_EqualArgsEqualResults == CalledTwice => ret = first

\* C6 amended: the second of two calls with equal arguments ends as the first
\* did, for matrix_log2, rotate_components and fit_power always, and for
\* matrix_zscore unless the matrix has a zero-sum column of nonzero index;
\* then the repair draws from the process-wide generator, which the first
\* call advanced.
C6_EqualResultsUnlessRepair ==
    CalledTwice =>
        \/ ret = first
        \/ /\ fn = "matrix_zscore"
           /\ \E c \in Cols(arg.matrix) : c # 0 /\ ColSum(arg.matrix, c) = 0

\* two matrix_zscore calls on equal matrices returned different matrices
C6_Witness ==
    /\ CalledTwice
    /\ fn = "matrix_zscore"
    /\ first.kind = "value"
    /\ ret.kind = "value"
    /\ ret # first

-----------------------------------------------------------------------------
(* Properties of rotate_components *)

Rotating == fn = "rotate_components"

\* the library failed on some input of this call, or of the equal one before
SvdFailed == \E e \in svd_seen : ~e[2].ok

\* C3: the rotation matrix is orthogonal initially and after every update:
\* r * r.T is the k x k identity.
C3_RotationOrthogonal ==
    Rotating => Dot(r, Transpose(r)) = Eye(Cardinality(Cols(arg.phi)))

\* an update has replaced the initial identity by another rotation
C3_Witness ==
    /\ Rotating
    /\ updates >= 2
    /\ r # Eye(Cardinality(Cols(arg.phi)))

\* C4, the part that holds in every state: at most q updates are made; a call
\* that returns a value returns phi * r for the last r (phi itself when no
\* update was made); and a call ends with an error only when the SVD failed,
\* never because the q iterations ran out.
C4_Bounded ==
    Rotating =>
        /\ updates <= arg.q
        /\ pc = "done" /\ ret.kind = "value" =>
              /\ ret = ReturnRotated(Dot(arg.phi, r))
              /\ updates = 0 => ret = ReturnRotated(arg.phi)
        /\ pc = "done" => (ret.kind = "raise" <=> SvdFailed)

\* C4: for every phi and every cap q >= 0 the loop makes at most q updates and
\* the call then ends; it ends by returning phi * r for the last r (phi itself
\* after no update) unless the SVD itself failed, so running out of iterations
\* is not an error.
C4_CapThenReturn ==
    /\ []C4_Bounded
    /\ (Rotating /\ pc \in {"loop", "break"}) ~> (Rotating /\ pc = "done")

\* a call that used up its q >= 2 iterations without meeting the stopping
\* test and returned
C4_Witness ==
    /\ Rotating
    /\ pc = "done"
    /\ ret.kind = "value"
    /\ arg.q >= 2
    /\ updates = arg.q
    /\ d > d_old
    /\ d_old > 0

\* C9: right after an update the loop is left early exactly when d_old is
\* nonzero and d / d_old < 1 + tol; so it is left whenever d fell below a
\* nonzero d_old, and never when d_old is zero.  Once left, no update follows.
C9_StopTest ==
    Rotating /\ updates > 0 /\ pc \in {"loop", "break"} =>
        /\ d_old >= 0
        /\ pc = "break" <=> (d_old # 0 /\ d * TolDen < d_old * (TolDen + 1))
        /\ d_old # 0 /\ d < d_old => pc = "break"
        /\ d_old = 0 => pc = "loop"

\* the loop was left after an update that lowered d
C9_Witness ==
    /\ Rotating
    /\ pc = "break"
    /\ d_old # 0
    /\ d < d_old

\* C10: the first pass never leaves the loop early; a call with q >= 2 that
\* returns has made at least two updates, and exactly q when d was 0 after
\* every update.
C10_NoExitOnFirstPass ==
    Rotating =>
        /\ updates = 1 => pc # "break"
        /\ pc = "done" /\ ret.kind = "value" /\ arg.q >= 2 =>
              /\ updates >= 2
              /\ (\A e \in svd_seen : e[2].d = 0) => updates = arg.q

\* a call with q >= 2 whose d was 0 after every update, returned after q updates
C10_Witness ==
    /\ Rotating
    /\ pc = "done"
    /\ ret.kind = "value"
    /\ arg.q >= 2
    /\ updates = arg.q
    /\ svd_seen # {}
    /\ \A e \in svd_seen : e[2].ok /\ e[2].d = 0

-----------------------------------------------------------------------------
(* Properties of fit_power *)

FitDone == pc = "done" /\ fn = "fit_power"

\* the curve fit had the data it needs (two parameters, at least two points)
FitSucceeds(L) == Len(Truncate(L)) >= 2

C8_FailurePropagates ==
    /\ [](FitDone /\ ~FitSucceeds(arg.eigvals_rot) =>
            /\ ret = Raise(IF Len(arg.eigvals_rot) = 0 THEN "ValueError" ELSE "TypeError")
            /\ popt = <<>>
            /\ i0 = {})
    /\ [][(/\ Rotating
           /\ pc = "loop"
           /\ \E e \in svd_seen' :
                 e[1] = svd_input(arg.phi, arg.gamma, r) /\ ~e[2].ok)
          => /\ pc' = "done"
             /\ ret' = Raise("LinAlgError")
             /\ r' = r
             /\ updates' = updates]_vars

\* fit_power ended with the error of a failed fit
C8_Witness ==
    /\ FitDone
    /\ Len(arg.eigvals_rot) = 1
    /\ ret = Raise("TypeError")

====
